---- MODULE Spec2Model ----
(***************************************************************************)
(* A model of streamlit_app.py: the EDI loan application form.             *)
(*                                                                         *)
(* State: the configuration read at process start, the two local JSONL     *)
(* files (data/users.jsonl, data/applicants.jsonl), the two remote tables  *)
(* (users, applicants), one st.session_state per browser session, the      *)
(* wall clock, and what the last script run did and displayed.             *)
(* One action per script run that handles a button (Streamlit reruns the   *)
(* whole script on every interaction). Which page a run shows is the       *)
(* "role" query parameter, an input of the run: any logged-in session may  *)
(* ask for either page. admin_create_user_box is defined but no page calls *)
(* it; it is modelled as an operation any session may invoke.              *)
(***************************************************************************)
EXTENDS Integers, Sequences, FiniteSets, TLC

\* ------------------------------------------------------------- bounds
MaxApplicants == 2
MaxNewUsers == 1
GuardRecords == 1
MaxClock == 1
RandSpace == 2

\* ---------------------------------------------------- program constants
MinPwdLen == 6
TsChars == 10
RandChars == 16
UuidChars == 32
Base32 == 32
Base16 == 16

\* Two browser sessions.
Sessions == {"s1", "s2"}

\* Python's None, and Optional[T] values: <<>> is None, <<v>> is v.
None == <<>>
Some(v) == <<v>>

\* ------------------------------------------------------------ strings
\* str.lower() on the e-mail addresses the model uses.
Emails == {"ann@x", "Ann@x", "bob@x"}
Lower(e) == IF e = "Ann@x" THEN "ann@x" ELSE e

\* bcrypt.hashpw(p, gensalt()): a salted one-way digest; the salt is not
\* modelled, the digest is a value distinct from the plaintext.
hash_pwd(p) == <<"$2b$", p>>
check_pwd(p, h) == h = <<"$2b$", p>>

\* ------------------------------------------------------- identifiers
\* Fixed-width big-endian digits of n in base b (the characters of the
\* Crockford base32 / hex alphabets are in ASCII order, so comparing digit
\* values compares the strings).
RECURSIVE Enc(_, _, _)
Enc(n, b, w) == IF w = 0 THEN <<>> ELSE Append(Enc(n \div b, b, w - 1), n % b)

\* str(ULID()): 48-bit millisecond timestamp, then 80 random bits.
ULIDStr_swapped(ts, r) == Enc(r, Base32, RandChars) \o Enc(ts, Base32, TsChars)
ULIDStr(ts, r) == Enc(ts, Base32, TsChars) \o Enc(r, Base32, RandChars)

\* str(uuid.uuid4()): random hex digits.
UuidStr(r) == Enc(r, Base16, UuidChars)

\* Lexical (string) order on identifiers.
RECURSIVE LexLess(_, _)
LexLess(a, b) ==
    IF b = <<>> THEN FALSE
    ELSE IF a = <<>> THEN TRUE
    ELSE IF Head(a) # Head(b) THEN Head(a) < Head(b)
    ELSE LexLess(Tail(a), Tail(b))

\* ------------------------------------------------------------- dates
\* datetime.date as <<year, month, day>>; str(date) is its ISO form.
Pad2(n) == IF n < 10 THEN "0" \o ToString(n) ELSE ToString(n)
DateStr(d) == ToString(d[1]) \o "-" \o Pad2(d[2]) \o "-" \o Pad2(d[3])

\* -------------------------------------------------- the applicant form
\* The closed value sets of the select boxes and of the validators.
SexOptions == {"m", "f"}
EnterpriseCategories == {"micro", "small", "medium", "startup"}
OwnershipForms == {"soleproprietorship", "partnership", "plc"}
BusinessSectors ==
    {"manufacturing", "construction", "agriculture", "mining", "service", "others"}
BusinessPremises == {"rented", "applicant_owned", "government"}
ModesOfFinance == {"conventional", "ifb"}

\* The fields the form marks with "*" that are text inputs.
RequiredText ==
    {"region", "batch", "zone", "woreda", "kebele", "first_name", "father_name",
     "grandfather_name", "applicant_address", "owners_names", "registered_address",
     "source_of_repayment", "purpose_of_funds", "guarantor_first_name",
     "guarantor_father_name", "guarantor_grandfather_name", "guarantor_phone",
     "credit_history", "cbe_account_number", "cbe_branch", "cbe_city"}

\* The optional text inputs (sent as `value or None`).
OptionalText == {"trade_license_number", "trade", "registration_number", "tin_number"}

\* The numeric financial/count fields.
NumericFields ==
    {"number_of_owners", "male_employees", "female_employees", "business_capital_etb",
     "monthly_revenue_etb", "annual_revenue_last3", "net_profit_last3",
     "financing_required_etb", "guarantor_monthly_income"}

\* min_value of each st.number_input; net_profit_last3 ("Net Profit/Loss")
\* is given none.
NumberInputMin ==
    [number_of_owners |-> 1, male_employees |-> 0, female_employees |-> 0,
     business_capital_etb |-> 0, monthly_revenue_etb |-> 0, annual_revenue_last3 |-> 0,
     financing_required_etb |-> 0, guarantor_monthly_income |-> 0]

\* A filled-in form: the values the widgets return, keyed by the field each feeds.
BaseForm ==
    [region |-> "Oromia", batch |-> "B1", zone |-> "Z1", woreda |-> "W1", kebele |-> "K1",
     first_name |-> "Abebe", father_name |-> "Kebede", grandfather_name |-> "Alemu",
     date_of_birth |-> <<1990, 1, 1>>, date_collected |-> <<2024, 5, 17>>, sex |-> "m",
     applicant_address |-> "Adama 01", has_business_license |-> TRUE,
     trade_license_number |-> "TL-1", trade |-> "", registration_number |-> "",
     tin_number |-> "", date_of_business_license |-> Some(<<2020, 11, 2>>),
     enterprise_category |-> "micro", ownership_form |-> "plc",
     business_sector |-> "service", number_of_owners |-> 1, owners_names |-> "Abebe",
     registered_address |-> "Adama 01", business_premise |-> "rented",
     male_employees |-> 0, female_employees |-> 2, business_capital_etb |-> 500,
     monthly_revenue_etb |-> 100, annual_revenue_last3 |-> 3000, net_profit_last3 |-> 200,
     financing_required_etb |-> 1000, source_of_repayment |-> "sales",
     purpose_of_funds |-> "stock", guarantor_first_name |-> "Sara",
     guarantor_father_name |-> "Tesfaye", guarantor_grandfather_name |-> "Bekele",
     guarantor_phone |-> "0911", guarantor_monthly_income |-> 50,
     credit_history |-> "good", cbe_account_number |-> "1000", cbe_branch |-> "Adama",
     cbe_city |-> "Adama", mode_of_finance |-> "ifb"]

\* What a user may try to enter: the base form, a form with no licence and a
\* required text left empty, a negative number in each numeric field, and a
\* value outside each closed set.
UnlicensedForm ==
    [BaseForm EXCEPT !.has_business_license = FALSE, !.trade_license_number = "",
                     !.date_of_business_license = None]
TextForms == {[UnlicensedForm EXCEPT ![f] = ""] : f \in {"region"}}
NumberForms ==
    {[BaseForm EXCEPT ![f] = -100] : f \in NumericFields}
        \cup {[BaseForm EXCEPT !.number_of_owners = 0]}
ChoiceForms ==
    {[BaseForm EXCEPT ![f] = "x"] :
        f \in {"sex", "enterprise_category", "ownership_form", "business_sector",
               "business_premise", "mode_of_finance"}}
EnteredForms == {BaseForm} \cup TextForms \cup NumberForms \cup ChoiceForms

\* st.number_input clamps to min_value.
number_input_ok_nomin(form) ==
    \A f \in DOMAIN NumberInputMin \ {"business_capital_etb"} : form[f] >= NumberInputMin[f]
number_input_ok(form) ==
    \A f \in DOMAIN NumberInputMin : form[f] >= NumberInputMin[f]

\* st.selectbox returns one of its options.
selectbox_ok(form) ==
    /\ form.sex \in SexOptions
    /\ form.enterprise_category \in EnterpriseCategories
    /\ form.ownership_form \in OwnershipForms
    /\ form.business_sector \in BusinessSectors
    /\ form.business_premise \in BusinessPremises
    /\ form.mode_of_finance \in ModesOfFinance

\* The forms the widgets of collector_page can return.
WidgetsAllow(form) == number_input_ok(form) /\ selectbox_ok(form)

\* `value or None` of an optional text input.
OrNone(v) == IF v = "" THEN None ELSE Some(v)

\* The keyword arguments handed to Applicant(...).
Candidate(form) ==
    [f \in DOMAIN form |->
        IF f \in OptionalText THEN OrNone(form[f])
        ELSE IF f = "date_of_business_license" /\ ~form.has_business_license THEN None
        ELSE form[f]]

\* class Applicant: pydantic accepts any str for a `str` field (the empty
\* string too), any int/float for a number; sex has a pattern, five fields a
\* validator.
ApplicantValid(c) ==
    /\ \A f \in RequiredText : c[f] \in STRING
    /\ \A f \in NumericFields : c[f] \in Int
    /\ c.sex \in {"m", "f"}
    /\ c.enterprise_category \in {"micro", "small", "medium", "startup"}
    /\ c.ownership_form \in {"soleproprietorship", "partnership", "plc"}
    /\ c.business_sector \in
         {"manufacturing", "construction", "agriculture", "mining", "service", "others"}
    /\ c.business_premise \in {"rented", "applicant_owned", "government"}
    /\ c.mode_of_finance \in {"conventional", "ifb"}

\* rec = dict(id=..., ..., collected_by=...): dates become strings.
BuildRecord(form, id, uid) ==
    ("id" :> id) @@ ("collected_by" :> uid) @@
    [Candidate(form) EXCEPT
        !.date_of_birth = DateStr(@), !.date_collected = DateStr(@),
        !.date_of_business_license =
            IF form.has_business_license /\ form.date_of_business_license # None
            THEN Some(DateStr(form.date_of_business_license[1])) ELSE None]

\* ------------------------------------------------------ the JSONL files
\* A file is the sequence of its lines; a line is the JSON text of an object.
JsonDumps(obj) == [json |-> obj]
JsonLoads(line) == line.json

\* save_jsonl: open(path, "a") and write one line.
save_jsonl_truncating(file, obj) == <<JsonDumps(obj)>>
save_jsonl(file, obj) == Append(file, JsonDumps(obj))

\* load_jsonl: every line parsed, in file order.
load_jsonl(file) == [i \in 1..Len(file) |-> JsonLoads(file[i])]

\* =================================================================== state
VARIABLES
    cfg,             \* st.secrets: which of SUPABASE_URL, _ANON_KEY, _SERVICE_ROLE_KEY are set
    adminEmails,     \* APP_ADMIN_EMAILS
    dataDir,         \* whether the directory data/ exists
    usersFile,       \* data/users.jsonl
    applicantsFile,  \* data/applicants.jsonl
    usersTable,      \* the remote table "users"
    applicantsTable, \* the remote table "applicants", in auto_number order
    session,         \* st.session_state of each browser session: user, role
    now,             \* the wall clock, in milliseconds
    upd,             \* a local update between its load_jsonl and its rewrite
    last,            \* the last script run: its inputs, store accesses and message
    issuedApplicants, \* history: the ULIDs issued, in creation order, with their tick
    issuedUsers,     \* history: the uuid4 identifiers issued, in creation order
    ideal,           \* history: applicants.jsonl had its completed writes run one at a time
    raced            \* history: a rewrite used a snapshot older than the file

vars ==
    <<cfg, adminEmails, dataDir, usersFile, applicantsFile, usersTable, applicantsTable,
      session, now, upd, last, issuedApplicants, issuedUsers, ideal, raced>>

\* ------------------------------------------------------------ start-up
\* if SUPABASE_URL and SUPABASE_ANON_KEY: supabase = create_client(...)
supabase == cfg.url /\ cfg.anon

\* supabase_admin exists only inside that branch, with the service-role key.
supabase_admin == supabase /\ cfg.service

\* The configurations: nothing set; the URL and the service key without the
\* anon key; URL and anon key; all three. (The other four lack the URL or the
\* anon key, like the first two.)
Configs ==
    {[url |-> FALSE, anon |-> FALSE, service |-> FALSE],
     [url |-> TRUE, anon |-> FALSE, service |-> TRUE],
     [url |-> TRUE, anon |-> TRUE, service |-> FALSE],
     [url |-> TRUE, anon |-> TRUE, service |-> TRUE]}

\* The users a deployment starts with (create-user needs an admin to exist).
SeedUsers ==
    << [email |-> "ann@x", password_hash |-> hash_pwd("secret1"), role |-> "admin",
        id |-> UuidStr(254)],
       [email |-> "bob@x", password_hash |-> hash_pwd("secret2"), role |-> "collector",
        id |-> UuidStr(255)] >>

\* if "user" not in st.session_state: user = None; role = "collector"
NewSession == [user |-> None, role |-> "collector"]

NoAccess == {}
Access(store, kind, backend) == [store |-> store, kind |-> kind, backend |-> backend]

\* What a script run leaves behind for the claims to read.
Ran(op, s, msg, level, io, rows) ==
    [op |-> op, s |-> s, msg |-> msg, level |-> level, io |-> io, rows |-> rows,
     email |-> "", password |-> "", form |-> None, target |-> None, out |-> None]

Init ==
    /\ cfg \in Configs
    /\ adminEmails \in {{}, {"bob@x"}}
    \* os.makedirs("data") runs in the local branch only; with the service key
    \* nothing touches data/
    /\ dataDir \in (IF supabase /\ ~cfg.service THEN BOOLEAN ELSE {~supabase})
    /\ usersFile =
          IF supabase THEN <<>>
          ELSE [i \in 1..Len(SeedUsers) |-> JsonDumps(SeedUsers[i])]
    /\ applicantsFile = <<>>
    /\ usersTable = IF supabase THEN SeedUsers ELSE <<>>
    /\ applicantsTable = <<>>
    /\ session = [s \in Sessions |-> NewSession]
    /\ now = 0
    /\ upd = [s \in Sessions |-> None]
    /\ last = Ran("start", "", "", "none", NoAccess, -1)
    /\ issuedApplicants = <<>>
    /\ issuedUsers = <<>>
    /\ ideal = <<>>
    /\ raced = FALSE

\* ------------------------------------------------------------ helpers
\* is_admin(email), read in session s.
is_admin_always(s, email) == TRUE
is_admin(s, email) ==
    IF email # "" /\ Lower(email) \in adminEmails THEN TRUE
    ELSE session[s].role = "admin"

SessionEmail(s) == IF session[s].user # None THEN session[s].user[1].email ELSE ""

SeqToSet(q) == {q[i] : i \in 1..Len(q)}

\* supabase.table("users").select("*").eq("email", email): exact match.
SelectUsersEq(email) ==
    LET Test(r) == r.email = email IN SelectSeq(usersTable, Test)

\* [r for r in load_jsonl("data/users.jsonl") if r["email"].lower() == email.lower()]
LocalUsersMatching(email) ==
    LET Test(r) == Lower(r.email) = Lower(email) IN SelectSeq(load_jsonl(usersFile), Test)

\* The rows admin_page loads, and the backend it loads them from (the table
\* is kept in auto_number order; the select without .order() is taken to
\* return that order too).
LoadApplicants ==
    IF supabase_admin \/ supabase THEN applicantsTable ELSE load_jsonl(applicantsFile)
LoadBackend == IF supabase_admin \/ supabase THEN "remote" ELSE "local"

\* Identifiers in use, for drawing a random one (a collision of 80 or 122
\* random bits is taken not to happen).
UserIds ==
    {r.id : r \in SeqToSet(load_jsonl(usersFile)) \cup SeqToSet(usersTable)}
        \cup SeqToSet(issuedUsers)
ApplicantIds == {e.id : e \in SeqToSet(issuedApplicants)}
Rand == 0..(RandSpace - 1)

\* rows[int(idx)]["credit_history"] = new_credit; then every row written back
\* with open(path, "w").
Rewrite(rows, idx, x) ==
    [i \in 1..Len(rows) |->
        JsonDumps(IF i = idx + 1 THEN [rows[i] EXCEPT !.credit_history = x] ELSE rows[i])]

\* .update({"credit_history": x}).eq("id", id) on the remote table.
RemoteUpdate(table, id, x) ==
    [i \in 1..Len(table) |->
        IF table[i].id = id THEN [table[i] EXCEPT !.credit_history = x] ELSE table[i]]

\* The update applied to the history copy, by identifier.
IdealUpdate(id, x) ==
    [i \in 1..Len(ideal) |->
        IF ideal[i].id = id THEN [ideal[i] EXCEPT !.credit_history = x] ELSE ideal[i]]

CreditValues == {"good", "bad"}

\* ================================================================= actions
\* The clock advances.
Tick ==
    /\ now < MaxClock
    /\ now' = now + 1
    /\ UNCHANGED <<cfg, adminEmails, dataDir, usersFile, applicantsFile, usersTable,
                   applicantsTable, session, upd, last, issuedApplicants, issuedUsers,
                   ideal, raced>>

\* A browser reload: a new st.session_state.
Reload(s) ==
    /\ upd[s] = None
    /\ session[s].user # None
    /\ session' = [session EXCEPT ![s] = NewSession]
    /\ last' = Ran("reload", s, "", "none", NoAccess, -1)
    /\ UNCHANGED <<cfg, adminEmails, dataDir, usersFile, applicantsFile, usersTable,
                   applicantsTable, now, upd, issuedApplicants, issuedUsers, ideal, raced>>

\* login_box, "Sign in" pressed.
Login(s, email, password) ==
    /\ upd[s] = None
    /\ session[s].user = None
    /\ LET rows == IF supabase THEN SelectUsersEq(email) ELSE LocalUsersMatching(email)
           io == {Access("users", "read", IF supabase THEN "remote" ELSE "local")}
           Shown(msg, level) ==
               [Ran("login", s, msg, level, io, -1) EXCEPT
                   !.email = email, !.password = password]
       IN  IF rows = <<>>
           THEN /\ last' = Shown("User not found", "error")
                /\ UNCHANGED session
           ELSE LET user == rows[1] IN
                IF check_pwd(password, user.password_hash)
                THEN /\ session' =
                          [session EXCEPT ![s] =
                              [user |-> Some([email |-> email, id |-> user.id]),
                               role |-> user.role]]
                     /\ last' = Shown("Logged in", "success")
                ELSE /\ last' = Shown("Incorrect password", "error")
                     /\ UNCHANGED session
    /\ UNCHANGED <<cfg, adminEmails, dataDir, usersFile, applicantsFile, usersTable,
                   applicantsTable, now, upd, issuedApplicants, issuedUsers, ideal, raced>>

\* admin_create_user_box, "Create User" pressed.
\* r is the random draw of uuid4 (or of the table's default id), ok whether
\* the remote insert reports the inserted row.
CreateUser(s, email, role_sel, pwd1, pwd2, r, ok) ==
    /\ upd[s] = None
    /\  LET rec == [email |-> Lower(email), password_hash |-> hash_pwd(pwd1),
                    role |-> role_sel]
            id == UuidStr(r)
            row == ("id" :> id) @@ rec
            Shown(msg, level, io, rows) ==
                [Ran("create_user", s, msg, level, io, rows) EXCEPT !.email = email]
        IN  IF ~is_admin(s, SessionEmail(s))
            THEN /\ last' = Shown("Admins only", "error", NoAccess, -1)
                 /\ UNCHANGED <<usersFile, usersTable, issuedUsers>>
            ELSE IF pwd1 # pwd2 \/ Len(pwd1) < MinPwdLen
            THEN /\ last' = Shown("Passwords must match and be at least 6 chars",
                                  "error", NoAccess, -1)
                 /\ UNCHANGED <<usersFile, usersTable, issuedUsers>>
            ELSE IF supabase_admin
            THEN \* the row's id is the table's default, a random uuid
                 /\ id \notin UserIds
                 /\ usersTable' = IF ok THEN Append(usersTable, row) ELSE usersTable
                 /\ last' = Shown("User created", "success",
                                  {Access("users", "write", "remote")},
                                  IF ok THEN 1 ELSE 0)
                 /\ UNCHANGED <<usersFile, issuedUsers>>
            ELSE IF dataDir
            THEN /\ id \notin UserIds
                 /\ usersFile' = save_jsonl(usersFile, row)
                 /\ issuedUsers' = Append(issuedUsers, id)
                 /\ last' = Shown("User created", "success",
                                  {Access("users", "write", "local")}, -1)
                 /\ UNCHANGED usersTable
            ELSE \* open() raises: data/ was never made
                 /\ last' = Shown("FileNotFoundError", "exception",
                                  {Access("users", "write", "local")}, -1)
                 /\ UNCHANGED <<usersFile, usersTable, issuedUsers>>
    /\ UNCHANGED <<cfg, adminEmails, dataDir, applicantsFile, applicantsTable, session,
                   now, upd, issuedApplicants, ideal, raced>>

\* collector_page, "Save Applicant" pressed.
\* r is the randomness of ULID(), ok whether the remote insert reports the
\* inserted row.
SubmitApplicant(s, form, r, ok) ==
    /\ upd[s] = None
    /\ session[s].user # None
    /\ WidgetsAllow(form)
    /\  LET id == ULIDStr(now, r)
            rec == BuildRecord(form, id, session[s].user[1].id)
            Shown(msg, level, io, rows) ==
                [Ran("submit", s, msg, level, io, rows) EXCEPT !.form = Some(form)]
        IN  IF ~ApplicantValid(Candidate(form))
            THEN /\ last' = Shown("Missing/invalid fields", "error", NoAccess, -1)
                 /\ UNCHANGED <<applicantsFile, applicantsTable, issuedApplicants, ideal>>
            ELSE /\ id \notin ApplicantIds
                 /\ issuedApplicants' = Append(issuedApplicants, [id |-> id, tick |-> now])
                 /\ IF supabase
                    THEN /\ applicantsTable' =
                              IF ok THEN Append(applicantsTable, rec) ELSE applicantsTable
                         /\ last' =
                              IF ok
                              THEN Shown("Saved to cloud", "success",
                                         {Access("applicants", "write", "remote")}, 1)
                              ELSE Shown("Cloud save failed", "error",
                                         {Access("applicants", "write", "remote")}, 0)
                         /\ UNCHANGED <<applicantsFile, ideal>>
                    ELSE /\ applicantsFile' = save_jsonl(applicantsFile, rec)
                         /\ ideal' = Append(ideal, rec)
                         /\ last' = Shown("Saved locally (demo mode)", "success",
                                          {Access("applicants", "write", "local")}, -1)
                         /\ UNCHANGED applicantsTable
    /\ UNCHANGED <<cfg, adminEmails, dataDir, usersFile, usersTable, session, now, upd,
                   issuedUsers, raced>>

\* admin_page with no button pressed: the table of applicants.
ListApplicants(s) ==
    /\ upd[s] = None
    /\ session[s].user # None
    /\ last' =
        IF ~is_admin(s, SessionEmail(s))
        THEN Ran("list", s, "Admins only", "error", NoAccess, -1)
        ELSE [Ran("list", s, "", "none", {Access("applicants", "read", LoadBackend)}, -1)
                 EXCEPT !.out = Some(LoadApplicants)]
    /\ UNCHANGED <<cfg, adminEmails, dataDir, usersFile, applicantsFile, usersTable,
                   applicantsTable, session, now, upd, issuedApplicants, issuedUsers,
                   ideal, raced>>

\* df["auto_number"] = range(1, len(df)+1) when the rows carry none; the
\* remote rows carry the table's own, their position in auto_number order.
WithAutoNumber(rows) ==
    [i \in 1..Len(rows) |-> [auto_number |-> i, id |-> rows[i].id]]

\* admin_page, "Download Excel" pressed: the rows handed to export_excel (the
\* spreadsheet file itself is not part of the state).
Export(s) ==
    /\ upd[s] = None
    /\ session[s].user # None
    /\ last' =
        IF ~is_admin(s, SessionEmail(s))
        THEN Ran("export", s, "Admins only", "error", NoAccess, -1)
        ELSE [Ran("export", s, "Download file", "none",
                  {Access("applicants", "read", LoadBackend)}, -1)
                 EXCEPT !.out = Some(WithAutoNumber(LoadApplicants))]
    /\ UNCHANGED <<cfg, adminEmails, dataDir, usersFile, applicantsFile, usersTable,
                   applicantsTable, session, now, upd, issuedApplicants, issuedUsers,
                   ideal, raced>>

\* admin_page, "Update Credit History" pressed, run to completion.
\* ok: whether the remote update reports the updated row.
UpdateCreditHistory(s, idx, x, ok) ==
    /\ upd[s] = None
    /\ session[s].user # None
    /\  IF ~is_admin(s, SessionEmail(s))
        THEN /\ last' = Ran("update", s, "Admins only", "error", NoAccess, -1)
             /\ UNCHANGED <<applicantsFile, applicantsTable, ideal>>
        ELSE LET rows == LoadApplicants
                 read == Access("applicants", "read", LoadBackend)
                 Shown(msg, level, io, n) ==
                     [Ran("update", s, msg, level, io, n) EXCEPT
                         !.target = Some([id |-> rows[idx + 1].id, value |-> x,
                                          before |-> rows[idx + 1]])]
             IN  /\ idx < Len(rows)
                 /\ IF supabase_admin
                    THEN /\ applicantsTable' =
                              IF ok THEN RemoteUpdate(applicantsTable, rows[idx + 1].id, x)
                              ELSE applicantsTable
                         /\ last' = Shown("Updated", "success",
                                          {read, Access("applicants", "write", "remote")},
                                          IF ok THEN 1 ELSE 0)
                         /\ UNCHANGED <<applicantsFile, ideal>>
                    ELSE IF dataDir
                    THEN /\ applicantsFile' = Rewrite(rows, idx, x)
                         /\ ideal' = IdealUpdate(rows[idx + 1].id, x)
                         /\ last' = Shown("Updated", "success",
                                          {read, Access("applicants", "write", "local")}, -1)
                         /\ UNCHANGED applicantsTable
                    ELSE /\ last' = Shown("FileNotFoundError", "exception",
                                          {read, Access("applicants", "write", "local")}, -1)
                         /\ UNCHANGED <<applicantsFile, applicantsTable, ideal>>
    /\ UNCHANGED <<cfg, adminEmails, dataDir, usersFile, usersTable, session, now, upd,
                   issuedApplicants, issuedUsers, raced>>

\* The same handler on the local backend, as the two file accesses it makes:
\* rows = load_jsonl(...) when the script run starts ...
UpdateLoad(s, idx, x) ==
    /\ upd[s] = None
    /\ session[s].user # None
    /\ is_admin(s, SessionEmail(s))
    /\ ~supabase_admin
    /\ dataDir
    /\ idx < Len(LoadApplicants)
    /\ upd' = [upd EXCEPT ![s] = Some([rows |-> LoadApplicants, idx |-> idx, x |-> x])]
    /\ last' = Ran("update_load", s, "", "none",
                   {Access("applicants", "read", LoadBackend)}, -1)
    /\ UNCHANGED <<cfg, adminEmails, dataDir, usersFile, applicantsFile, usersTable,
                   applicantsTable, session, now, issuedApplicants, issuedUsers, ideal,
                   raced>>

\* ... and the rewrite of the whole file from those rows.
UpdateRewrite(s) ==
    /\ upd[s] # None
    /\ LET u == upd[s][1]
           row == u.rows[u.idx + 1]
       IN  /\ applicantsFile' = Rewrite(u.rows, u.idx, u.x)
           /\ ideal' = IdealUpdate(row.id, u.x)
           /\ raced' = (raced \/ load_jsonl(applicantsFile) # u.rows)
           /\ last' =
                [Ran("update", s, "Updated", "success",
                     {Access("applicants", "read", LoadBackend),
                      Access("applicants", "write", "local")}, -1)
                    EXCEPT !.target = Some([id |-> row.id, value |-> u.x, before |-> row])]
    /\ upd' = [upd EXCEPT ![s] = None]
    /\ UNCHANGED <<cfg, adminEmails, dataDir, usersFile, usersTable, applicantsTable,
                   session, now, issuedApplicants, issuedUsers>>

\* ----------------------------------------------------------- behaviours
\* What a remote write may report: the row, or no row.
RemoteReports == IF supabase THEN BOOLEAN ELSE {TRUE}

\* The first random value whose identifier is not in use: where the value of
\* an identifier plays no part, one draw stands for all.
FirstUlid ==
    {r \in Rand : /\ ULIDStr(now, r) \notin ApplicantIds
                  /\ \A q \in 0..(r - 1) : ULIDStr(now, q) \in ApplicantIds}
FirstUuid ==
    {r \in Rand : /\ UuidStr(r) \notin UserIds
                  /\ \A q \in 0..(r - 1) : UuidStr(q) \in UserIds}

\* Any unused draw.
AnyUlid == {r \in Rand : ULIDStr(now, r) \notin ApplicantIds}

\* The model stops creating records at its bounds.
ApplicantsBelow(n) == Len(issuedApplicants) < n
UsersBelow(n) == Len(usersFile) + Len(usersTable) < Len(SeedUsers) + n

AdminLogin == <<"ann@x", "secret1">>
CollectorLogin == <<"bob@x", "secret2">>

\* Every operation in every configuration; every script run runs to
\* completion before the next starts.
Next ==
    \/ \E s \in Sessions : Reload(s)
    \/ \E s \in Sessions, e \in Emails, p \in {"secret1", "secret2"} : Login(s, e, p)
    \/ \E s \in Sessions, pp \in {<<"secret2", "secret2">>, <<"abc", "abc">>},
          r \in FirstUuid, ok \in RemoteReports :
          UsersBelow(MaxNewUsers) /\ CreateUser(s, "Ann@x", "collector", pp[1], pp[2], r, ok)
    \/ \E s \in Sessions, r \in FirstUlid, ok \in RemoteReports :
          ApplicantsBelow(MaxApplicants) /\ SubmitApplicant(s, BaseForm, r, ok)
    \/ \E s \in Sessions : ListApplicants(s)
    \/ \E s \in Sessions : Export(s)
    \/ \E s \in Sessions, i \in 0..(MaxApplicants - 1), x \in CreditValues,
          ok \in RemoteReports : UpdateCreditHistory(s, i, x, ok)

Spec == Init /\ [][Next]_vars

\* The admin-only operations, tried from an admin's and a collector's session.
NextGuard ==
    \/ \E s \in Sessions : Reload(s)
    \/ \E s \in Sessions, c \in {AdminLogin, CollectorLogin} : Login(s, c[1], c[2])
    \/ \E s \in Sessions, r \in FirstUuid, ok \in RemoteReports :
          UsersBelow(GuardRecords)
              /\ CreateUser(s, "Ann@x", "collector", "secret2", "secret2", r, ok)
    \/ \E s \in Sessions, r \in FirstUlid, ok \in RemoteReports :
          ApplicantsBelow(GuardRecords) /\ SubmitApplicant(s, BaseForm, r, ok)
    \/ \E s \in Sessions : ListApplicants(s)
    \/ \E s \in Sessions : Export(s)
    \/ \E s \in Sessions, i \in 0..(GuardRecords - 1), ok \in RemoteReports :
          UpdateCreditHistory(s, i, "bad", ok)

SpecGuard == Init /\ [][NextGuard]_vars

\* Submitting every form a user may try to enter.
InitSubmit == Init /\ adminEmails = {}

NextSubmit ==
    \/ \E s \in Sessions, c \in {AdminLogin, CollectorLogin} : Login(s, c[1], c[2])
    \/ \E s \in Sessions : Reload(s)
    \/ \E s \in Sessions, f \in EnteredForms, r \in FirstUlid, ok \in RemoteReports :
          ApplicantsBelow(MaxApplicants) /\ SubmitApplicant(s, f, r, ok)

SpecSubmit == InitSubmit /\ [][NextSubmit]_vars

\* One session creating records while the clock runs, with every random draw.
AnyUuid == {r \in Rand : UuidStr(r) \notin UserIds}

NextIds ==
    \/ Tick
    \/ Login("s1", AdminLogin[1], AdminLogin[2])
    \/ \E r \in AnyUuid, ok \in RemoteReports :
          UsersBelow(MaxApplicants)
              /\ CreateUser("s1", "bob@x", "collector", "secret2", "secret2", r, ok)
    \/ \E r \in AnyUlid, ok \in RemoteReports :
          ApplicantsBelow(MaxApplicants) /\ SubmitApplicant("s1", BaseForm, r, ok)

SpecIds == InitSubmit /\ [][NextIds]_vars

\* Two admin sessions' script runs interleave on the local backend: an
\* update's load and rewrite are separate steps.
InitLocal == Init /\ ~supabase /\ ~cfg.url /\ adminEmails = {}

NextLocal ==
    \/ \E s \in Sessions, c \in {AdminLogin, CollectorLogin} : Login(s, c[1], c[2])
    \/ \E s \in Sessions, r \in FirstUlid :
          ApplicantsBelow(MaxApplicants) /\ SubmitApplicant(s, BaseForm, r, TRUE)
    \/ \E s \in Sessions, i \in 0..(MaxApplicants - 1), x \in CreditValues :
          UpdateLoad(s, i, x)
    \/ \E s \in Sessions : UpdateRewrite(s)

SpecLocal == InitLocal /\ [][NextLocal]_vars

\* ================================================================== claims
\* The backend the configuration selects, and its stores.
ActiveBackend == IF supabase THEN "remote" ELSE "local"
ActiveUsers == IF supabase THEN usersTable ELSE load_jsonl(usersFile)
ActiveApplicants == IF supabase THEN applicantsTable ELSE load_jsonl(applicantsFile)
StoredApplicants == SeqToSet(load_jsonl(applicantsFile)) \cup SeqToSet(applicantsTable)

\* C1: after update-credit-history(id, X) has reported "Updated" (and the
\* remote backend, where it was asked, reported the row), reading id back
\* from the active store gives the record as it was loaded, with
\* credit_history X.
C1_UpdateThenGet ==
    (last.op = "update" /\ last.msg = "Updated" /\ last.rows # 0) =>
        LET t == last.target[1]
            got == {r \in SeqToSet(ActiveApplicants) : r.id = t.id}
        IN  got = {[t.before EXCEPT !.credit_history = t.value]}

\* C2: a session whose e-mail is not on the allow-list (compared in lower
\* case, as the list is stored) and whose role is not admin.
NonAdmin(s) == Lower(SessionEmail(s)) \notin adminEmails /\ session[s].role # "admin"
AdminOnly == {"create_user", "update", "list", "export"}

\* C2: a step in which such a session runs an admin-only operation shows
\* "Admins only" and leaves both users stores and both applicants stores as
\* they were.
C2_NonAdminRefused ==
    [][\A s \in Sessions :
          (NonAdmin(s) /\ last'.s = s /\ last'.op \in AdminOnly) =>
              /\ last'.msg = "Admins only"
              /\ UNCHANGED <<usersFile, usersTable, applicantsFile, applicantsTable>>]_vars

\* C2's case: a logged-in collector was refused create-user while the store
\* held applicants.
C2_Witness ==
    /\ last.op = "create_user" /\ last.msg = "Admins only"
    /\ session[last.s].user # None /\ NonAdmin(last.s)
    /\ StoredApplicants # {}

\* C3: the submitted form leaves a required text empty or carries a value
\* outside a closed set.
BadForm(form) ==
    \/ \E f \in RequiredText : form[f] = ""
    \/ ~selectbox_ok(form)

\* C3: every submission of such a form is rejected and writes nothing.
C3_BadFormRejected ==
    (last.op = "submit" /\ BadForm(last.form[1])) =>
        /\ last.msg = "Missing/invalid fields"
        /\ \A a \in last.io : a.kind # "write"

\* C4: the identifiers issued so far, per kind, in creation order.
IssuedUlids == [i \in 1..Len(issuedApplicants) |-> issuedApplicants[i].id]
Increasing(ids) == \A i, j \in 1..Len(ids) : i < j => LexLess(ids[i], ids[j])

\* C4 as claimed: the identifiers of each kind are distinct and their lexical
\* order is their creation order.
C4_SortedAsCreated == Increasing(IssuedUlids) /\ Increasing(issuedUsers)

\* C4 as amended: two applicant identifiers issued in different clock ticks
\* are distinct and in lexical order.
C4_SortedAcrossTicks ==
    \A i, j \in 1..Len(issuedApplicants) :
        issuedApplicants[i].tick < issuedApplicants[j].tick =>
            LexLess(issuedApplicants[i].id, issuedApplicants[j].id)

\* C4's case: two applicants created in different ticks, both stored.
C4_Witness ==
    /\ Len(issuedApplicants) >= 2
    /\ issuedApplicants[1].tick < issuedApplicants[2].tick
    /\ \A i \in {1, 2} : \E r \in StoredApplicants : r.id = issuedApplicants[i].id

\* C5: a login attempt establishes a session exactly when the active backend
\* holds a user with that e-mail, letter case ignored, whose hash verifies
\* the password.
C5_LoginIff ==
    last.op = "login" =>
        ((session[last.s].user # None /\ last.level = "success") <=>
            \E u \in SeqToSet(ActiveUsers) :
                /\ Lower(u.email) = Lower(last.email)
                /\ check_pwd(last.password, u.password_hash))

\* C6: every store access of a script run goes to the backend the
\* configuration selects.
C6_OneBackend == \A a \in last.io : a.backend = ActiveBackend

\* C7: a remote write that reports no row is shown as an error.
C7_NoRowsIsFailure == last.rows = 0 => last.level = "error"

\* C8 as claimed: every stored applicant has every numeric field >= 0.
C8_AllNonNegative ==
    \A r \in StoredApplicants : \A f \in NumericFields : r[f] >= 0

\* C8 as amended: every stored applicant has every numeric field other than
\* net_profit_last3 non-negative.
C8_NonNegativeButProfit ==
    \A r \in StoredApplicants : \A f \in NumericFields \ {"net_profit_last3"} : r[f] >= 0

\* C8's case: a submission with a loss was stored.
C8_Witness ==
    /\ last.op = "submit" /\ last.level = "success"
    /\ \E r \in StoredApplicants : r.net_profit_last3 < 0

\* C9: on the local backend no two user records have the same e-mail, letter
\* case ignored.
C9_UniqueEmails ==
    ~supabase =>
        \A i, j \in 1..Len(usersFile) :
            i # j => Lower(JsonLoads(usersFile[i]).email) # Lower(JsonLoads(usersFile[j]).email)

\* C10: the applicants file differs from what its completed writes, run one
\* at a time, would have left only after a rewrite from a snapshot that
\* another session's write had made stale; while no rewrite has used a stale
\* snapshot, no completed write is missing.
C10_LostOnlyByStaleRewrite == load_jsonl(applicantsFile) # ideal => raced

\* C10's case: a record whose submission completed is no longer in the file.
C10_Witness ==
    /\ raced
    /\ \E r \in SeqToSet(ideal) : r \notin SeqToSet(load_jsonl(applicantsFile))

====
